---- MODULE Spec2Model ----
(***************************************************************************)
(* A model of src/model.c, the data model of a sparse spreadsheet: a hash  *)
(* table of cells keyed by "row,col", an evaluator of '+'-joined formulas  *)
(* and the propagation of a changed cell to the cells that read it.        *)
(*                                                                         *)
(* Strings are sequences of one-character strings.  A double is a record   *)
(* [nan, v]: the model's inputs are decimal integers and "nan", so every   *)
(* finite value in it is an integer.  A cell pointer is the index of its   *)
(* node in heap (malloc never returns a live address twice); NULL is 0.    *)
(* The C functions become operators from a world (the table, the heap and  *)
(* the calls made so far in the running operation) to the SET of worlds    *)
(* the call can end in: a call whose behaviour is undefined has several.   *)
(***************************************************************************)
EXTENDS Integers, Sequences, FiniteSets, TLC

VARIABLES spreadsheet, heap, display, evals, crashed, last, calls, supplied

vars == <<spreadsheet, heap, display, evals, crashed, last, calls, supplied>>

\* How many calls of the interface one run of the model makes.
MaxCalls == 4

HASH_SIZE == 1229

NULL == 0

(***************************************************************************)
(* Characters and the C library's conversions.                             *)
(***************************************************************************)

\* The printable ASCII characters, code 32 (space) to 126 (~), in order; the
\* double quote (34), the backslash (92) and the backtick (96) are spelled out.
Ascii ==
    <<" ", "!", "DQUOTE", "#", "$", "%", "&", "'", "(", ")", "*", "+", ",", "-", ".", "/",
      "0", "1", "2", "3", "4", "5", "6", "7", "8", "9", ":", ";", "<", "=", ">", "?",
      "@", "A", "B", "C", "D", "E", "F", "G", "H", "I", "J", "K", "L", "M", "N", "O",
      "P", "Q", "R", "S", "T", "U", "V", "W", "X", "Y", "Z", "[", "BACKSLASH", "]", "^", "_",
      "BACKTICK", "a", "b", "c", "d", "e", "f", "g", "h", "i", "j", "k", "l", "m", "n", "o",
      "p", "q", "r", "s", "t", "u", "v", "w", "x", "y", "z", "{", "|", "}", "~">>

\* The code of each character.
Code == [ch \in {Ascii[i] : i \in 1..Len(Ascii)} |->
            31 + (CHOOSE i \in 1..Len(Ascii) : Ascii[i] = ch)]

Ord(ch) == Code[ch]

Chr(n) == Ascii[n - 31]

isalpha(ch) == Ord(ch) \in (65..90) \cup (97..122)

IsDigitChar(ch) == Ord(ch) \in 48..57

isspace(ch) == Ord(ch) = 32

tolower(ch) == IF Ord(ch) \in 65..90 THEN Chr(Ord(ch) + 32) ELSE ch

\* A double: NaN, or a finite value (an integer here).
Num(n) == [nan |-> FALSE, v |-> n]

NaN == [nan |-> TRUE, v |-> 0]

isnan(x) == x.nan

\* x + y in IEEE arithmetic: NaN absorbs.
Add(x, y) == IF x.nan \/ y.nan THEN NaN ELSE Num(x.v + y.v)

\* x != 0 in IEEE arithmetic: NaN compares unequal to everything.
NonZero(x) == x.nan \/ x.v # 0

RECURSIVE DecDigits(_)
DecDigits(n) ==
    IF n < 10 THEN <<Chr(48 + n)>>
    ELSE Append(DecDigits(n \div 10), Chr(48 + (n % 10)))

\* printf's %d.
FormatD(n) == IF n < 0 THEN <<"-">> \o DecDigits(-n) ELSE DecDigits(n)

\* printf's %.1f.
Format1f(x) ==
    IF x.nan THEN <<"n", "a", "n">> ELSE FormatD(x.v) \o <<".", "0">>

\* The index of the first character of s at or after i that is no space.
RECURSIVE SkipSpace(_, _)
SkipSpace(s, i) ==
    IF i <= Len(s) /\ isspace(s[i]) THEN SkipSpace(s, i + 1) ELSE i

\* The index after the run of digits of s that starts at i.
RECURSIVE DigitsEnd(_, _)
DigitsEnd(s, i) ==
    IF i <= Len(s) /\ IsDigitChar(s[i]) THEN DigitsEnd(s, i + 1) ELSE i

\* The value of the decimal digits s[i..j-1].
RECURSIVE DigitsValue(_, _, _)
DigitsValue(s, i, j) ==
    IF i >= j THEN 0
    ELSE 10 * DigitsValue(s, i, j - 1) + (Ord(s[j - 1]) - 48)

HasSign(s, i) == i <= Len(s) /\ s[i] \in {"-", "+"}

\* Whether s reads "nan", in any case, from index i.
IsNanAt(s, i) ==
    /\ i + 2 <= Len(s)
    /\ <<tolower(s[i]), tolower(s[i + 1]), tolower(s[i + 2])>> = <<"n", "a", "n">>

\* strtod over decimal integers and "nan" (the model's texts hold no '.',
\* exponent, hexadecimal or "inf" form): the value read and the index of the
\* first character not read, 1 when nothing was converted.
strtod(s) ==
    LET i == SkipSpace(s, 1)
        j == IF HasSign(s, i) THEN i + 1 ELSE i
        k == DigitsEnd(s, j)
        neg == HasSign(s, i) /\ s[i] = "-"
    IN  IF k > j
        THEN [val |-> Num(IF neg THEN -DigitsValue(s, j, k) ELSE DigitsValue(s, j, k)),
              end |-> k]
        ELSE IF IsNanAt(s, j) THEN [val |-> NaN, end |-> j + 3]
        ELSE [val |-> Num(0), end |-> 1]

atof(s) == strtod(s).val

\* atoi: leading spaces, a sign, then digits up to the first non-digit.
atoi(s) ==
    LET i == SkipSpace(s, 1)
        j == IF HasSign(s, i) THEN i + 1 ELSE i
        k == DigitsEnd(s, j)
    IN  IF HasSign(s, i) /\ s[i] = "-" THEN -DigitsValue(s, j, k)
        ELSE DigitsValue(s, j, k)

\* The tokens strtok(s, "+") yields in turn: the maximal runs without '+'.
RECURSIVE strtok(_)
strtok(s) ==
    IF s = <<>> THEN <<>>
    ELSE IF Head(s) = "+" THEN strtok(Tail(s))
    ELSE LET n == CHOOSE m \in 1..Len(s) :
                      /\ \A q \in 1..m : s[q] # "+"
                      /\ (m = Len(s) \/ s[m + 1] = "+")
         IN  <<SubSeq(s, 1, n)>> \o strtok(SubSeq(s, n + 1, Len(s)))

(***************************************************************************)
(* The hash table.                                                         *)
(***************************************************************************)

\* djb2 over the characters of str, modulo HASH_SIZE.  The code reduces once,
\* at the end, a 64-bit accumulator that a key of fewer than 11 characters
\* cannot wrap; reducing at every step gives the same residue.
RECURSIVE djb2(_, _)
djb2(h, str) ==
    IF str = <<>> THEN h
    ELSE djb2((h * 33 + Ord(Head(str))) % HASH_SIZE, Tail(str))

hash(str) == djb2(5381 % HASH_SIZE, str)

\* snprintf(key, "%d,%d", row, col)
Key(row, col) == FormatD(row) \o <<",">> \o FormatD(col)

\* spreadsheet[index]: the buckets that hold no node are left out of the
\* function, and read NULL.
Bucket(w, index) ==
    IF index \in DOMAIN w.spreadsheet THEN w.spreadsheet[index] ELSE NULL

Cell(w, p) == w.heap[p].value

PutCell(w, p, c) == [w EXCEPT !.heap[p].value = c]

\* The three error messages.  No call parses a message, so each is kept as
\* one element of the string that holds it.
ERR_INVALID == <<"ERROR: invalid cell reference">>

ERR_CIRCULAR == <<"ERROR: circular dependency">>

ERR_INCOMPATIBLE == <<"ERROR: incompatible types">>

\* What a read of memory that holds no string yields.
GARBAGE == <<"?">>

\* update_cell_display(row, col, text): the call is recorded.
update_cell_display(w, row, col, text) ==
    [w EXCEPT !.display = Append(@, [row |-> row, col |-> col, text |-> text])]

\* The content union: number_value and text_value share their storage.
NumberContent(x) == [k |-> "number", num |-> x, text |-> <<>>]

TextContent(s) == [k |-> "text", num |-> Num(0), text |-> s]

\* content.text_value after free(content.text_value): it still points to the
\* released string.
FreedContent == [k |-> "freed", num |-> Num(0), text |-> <<>>]

\* content.text_value read as a string: a pointer to one when a string was
\* stored last and not released, the bytes of a double or released memory
\* otherwise.
TextValue(c) == IF c.content.k = "text" THEN c.content.text ELSE GARBAGE

set_error_and_update(w, current, error_message) ==
    LET c == Cell(w, current)
        w1 == PutCell(w, current,
                      [c EXCEPT !.type = "ERROR", !.content = TextContent(error_message)])
    IN  update_cell_display(w1, c.row, c.col, error_message)

\* A fresh cell: malloc leaves type, content and formula unset.
create_cell(w, row, col, text) ==
    LET key == Key(row, col)
        index == hash(key)
        new_node ==
            [key |-> key,
             next |-> Bucket(w, index),
             value |-> [row |-> row, col |-> col,
                        content |-> [k |-> "unset", num |-> Num(0), text |-> <<>>],
                        formula |-> <<>>,
                        type |-> "UNSET",
                        original_input |-> text,
                        dependents |-> <<>>,
                        dependents_capacity |-> 0,
                        state |-> "UNVISITED",
                        released |-> {}]]
        p == Len(w.heap) + 1
    IN  [w EXCEPT !.heap = Append(@, new_node),
                  !.spreadsheet = (index :> p) @@ @]

\* The address create_cell's node gets.
NewAddress(w) == Len(w.heap) + 1

add_dependent(w, current, dependent) ==
    LET c == Cell(w, current)
        cap == IF c.dependents_capacity = 0 THEN 1
               ELSE IF Len(c.dependents) = c.dependents_capacity
                    THEN 2 * c.dependents_capacity
                    ELSE c.dependents_capacity
    IN  PutCell(w, current,
                [c EXCEPT !.dependents_capacity = cap,
                          !.dependents = Append(@, dependent)])

RECURSIVE FindInChain(_, _, _)
FindInChain(w, p, key) ==
    IF p = NULL THEN NULL
    ELSE IF w.heap[p].key = key THEN p
    ELSE FindInChain(w, w.heap[p].next, key)

find_cell(w, row, col) ==
    FindInChain(w, Bucket(w, hash(Key(row, col))), Key(row, col))

(***************************************************************************)
(* Released memory.  value.released names the buffers of a cell that were  *)
(* handed to free() and are still pointed to: "original_input",            *)
(* "dependents", "formula", and "node" for the node itself.  (A released   *)
(* content.text_value is FreedContent.)                                    *)
(***************************************************************************)

\* The process dies (a fault): nothing of the call that was running returns.
Fault(w) == [w EXCEPT !.crashed = TRUE]

\* A read or a write through a pointer to buffer of cell p: of a released
\* buffer it finds what the allocator left there, or faults.
Touch(w, p, buffer) ==
    IF buffer \in Cell(w, p).released THEN {w, Fault(w)} ELSE {w}

\* free() of buffer of cell p; of a released buffer it is a double free,
\* which the allocator aborts on or lets pass.
Free(w, p, buffer) ==
    IF buffer \in Cell(w, p).released THEN {w, Fault(w)}
    ELSE {PutCell(w, p, [Cell(w, p) EXCEPT !.released = @ \cup {buffer}])}

\* free(content.text_value).
FreeTextValue(w, p) ==
    IF Cell(w, p).content.k = "freed" THEN {w, Fault(w)}
    ELSE {PutCell(w, p, [Cell(w, p) EXCEPT !.content = FreedContent])}

(***************************************************************************)
(* clear_cell and free_cell.                                               *)
(***************************************************************************)

\* clear_cell(row, col).  The cell is not looked at before its type is read:
\* for a coordinate with no cell that is a read through NULL.  The node
\* stays in its chain, and type and dependents_count stay as they were.
clear_cell(w, row, col) ==
    LET current == find_cell(w, row, col)
    IN  IF current = NULL THEN {Fault(w)}
        ELSE LET c == Cell(w, current)
                 valued ==
                     IF c.type = "FORMULA" THEN Free(w, current, "formula")
                     ELSE IF c.type \in {"TEXT", "ERROR"} THEN FreeTextValue(w, current)
                     ELSE {PutCell(w, current, [c EXCEPT !.content = NumberContent(Num(0))])}
                 \* free(NULL), of a list that was never allocated, does nothing.
                 listed == UNION {IF w1.crashed \/ c.dependents_capacity = 0 THEN {w1}
                                  ELSE Free(w1, current, "dependents") : w1 \in valued}
                 input == UNION {IF w2.crashed THEN {w2}
                                 ELSE Free(w2, current, "original_input") : w2 \in listed}
             IN  {IF w3.crashed THEN w3 ELSE update_cell_display(w3, row, col, <<>>)
                  : w3 \in input}

\* The node before p in the chain that starts at q (NULL when p is first).
RECURSIVE PrevInChain(_, _, _)
PrevInChain(w, q, p) ==
    IF q = p THEN NULL
    ELSE IF w.heap[q].next = p THEN q
    ELSE PrevInChain(w, w.heap[q].next, p)

\* free_cell(row, col): the node is taken out of its chain, and clear_cell
\* then looks the cell up in the table.
free_cell(w, row, col) ==
    LET key == Key(row, col)
        index == hash(key)
        current == FindInChain(w, Bucket(w, index), key)
    IN  IF current = NULL THEN {w}
        ELSE LET prev == PrevInChain(w, Bucket(w, index), current)
                 unlinked ==
                     IF prev = NULL
                     THEN [w EXCEPT !.spreadsheet =
                              IF w.heap[current].next = NULL
                              THEN [i \in DOMAIN @ \ {index} |-> @[i]]
                              ELSE [@ EXCEPT ![index] = w.heap[current].next]]
                     ELSE [w EXCEPT !.heap[prev].next = w.heap[current].next]
             IN  UNION {IF w1.crashed THEN {w1}
                        ELSE {update_cell_display(w2, row, col, <<>>)
                              : w2 \in Free(w1, current, "node")}
                        : w1 \in clear_cell(unlinked, w.heap[current].value.row,
                                            w.heap[current].value.col)}

(***************************************************************************)
(* The formula evaluator.                                                  *)
(***************************************************************************)

SetState(w, p, st) == PutCell(w, p, [Cell(w, p) EXCEPT !.state = st])

\* char *result_str: NULL, or a string.
NULL_STR == [null |-> TRUE, s |-> <<>>]

Str(s) == [null |-> FALSE, s |-> s]

\* What isdigit(token) can yield.  It is handed the char* itself, not a
\* character: the pointer's low bits index the ctype table out of its
\* bounds (or are compared with '0'..'9'), so the result is any value, or
\* the read faults.
IsdigitOfPointer == {"nonzero", "zero", "fault"}

\* FailWith without the assignment that restores the mark.
FailWith_Marked(w, current, error_message) ==
    [w |-> set_error_and_update(w, current, error_message), ret |-> NaN]

\* An early return of evaluate_formula: the error is set and shown, the mark
\* is restored and NAN is returned.
FailWith(w, current, error_message) ==
    [w |-> SetState(set_error_and_update(w, current, error_message), current, "UNVISITED"),
     ret |-> NaN]

\* Resolve without the test for a string together with a non-zero sum.
Resolve_Unchecked(w, current, result, result_str) ==
    LET w1 == SetState(w, current, "UNVISITED")
    IN  IF ~result_str.null
        THEN [w |-> PutCell(w1, current,
                            [Cell(w1, current) EXCEPT !.content = TextContent(result_str.s),
                                                      !.type = "TEXT"]),
              ret |-> NaN]
        ELSE [w |-> w1, ret |-> result]

\* Resolve without the store of UNVISITED into current->state.
Resolve_Marked(w, current, result, result_str) ==
    IF ~result_str.null /\ NonZero(result)
    THEN [w |-> set_error_and_update(w, current, ERR_INCOMPATIBLE), ret |-> NaN]
    ELSE IF ~result_str.null
    THEN [w |-> PutCell(w, current,
                        [Cell(w, current) EXCEPT !.content = TextContent(result_str.s),
                                                 !.type = "TEXT"]),
          ret |-> NaN]
    ELSE [w |-> w, ret |-> result]

\* After the token loop: the mark is restored and the result is typed.
Resolve(w, current, result, result_str) ==
    LET w1 == SetState(w, current, "UNVISITED")
    IN  IF ~result_str.null /\ NonZero(result)
        THEN [w |-> set_error_and_update(w1, current, ERR_INCOMPATIBLE), ret |-> NaN]
        ELSE IF ~result_str.null
        THEN [w |-> PutCell(w1, current,
                            [Cell(w1, current) EXCEPT !.content = TextContent(result_str.s),
                                                      !.type = "TEXT"]),
              ret |-> NaN]
        ELSE [w |-> w1, ret |-> result]

\* The running string after a TEXT or ERROR operand c was read.
Accumulate(result_str, c) ==
    IF result_str.null \/ c.type = "ERROR" THEN Str(TextValue(c))
    ELSE Str(result_str.s \o TextValue(c))

\* The dependents check of the referenced cell, and the registration.  Both
\* go through the list: a list of no entries is not read.
Register(w, cell, current) ==
    IF \E i \in 1..Len(Cell(w, cell).dependents) : Cell(w, cell).dependents[i] = current
    THEN Touch(w, cell, "dependents")
    ELSE {IF w1.crashed THEN w1 ELSE add_dependent(w1, cell, current)
          : w1 \in Touch(w, cell, "dependents")}

RECURSIVE evaluate_formula(_, _, _)
RECURSIVE TokenLoop(_, _, _, _, _)

\* The operand read from the referenced cell: the world, the running sum and
\* string after it, whether evaluate_formula returns NAN at once (a failed
\* sub-formula) and whether strtok's saved position was lost (the nested
\* evaluation ran strtok to the end of its own string, so the caller's next
\* strtok(NULL, "+") finds no token).  A cell of another type (none is
\* reachable: set_cell_value types a cell before anything reads it) adds
\* nothing.
ReadOperand(w, current, cell, result, result_str) ==
    LET c == Cell(w, cell)
        same == [w |-> w, result |-> result, result_str |-> result_str,
                 returns |-> FALSE, strtok_lost |-> FALSE]
    IN  CASE c.type = "NUMBER" ->
               {[same EXCEPT !.result = Add(result, c.content.num)]}
          [] c.type = "FORMULA" ->
               {IF o.w.crashed \/ isnan(o.ret)
                THEN [same EXCEPT !.w = IF o.w.crashed THEN o.w
                                        ELSE SetState(o.w, current, "UNVISITED"),
                                  !.returns = TRUE]
                ELSE [same EXCEPT !.w = o.w, !.result = Add(result, o.ret),
                                  !.strtok_lost = TRUE]
                : o \in evaluate_formula(w, cell, "evaluate_formula")}
          [] c.type \in {"TEXT", "ERROR"} ->
               {[same EXCEPT !.result_str = Accumulate(result_str, c)]}
          [] OTHER -> {same}

\* MissingCell with the message of the check that follows it.
MissingCell_Circular(w, current) == FailWith(w, current, ERR_CIRCULAR)

\* The referenced cell does not exist.
MissingCell(w, current) == FailWith(w, current, ERR_INVALID)

\* A token that is a cell reference.
Reference(w, current, token, rest, result, result_str) ==
    LET col == Ord(token[1]) - Ord("A")
        row == atoi(Tail(token)) - 1
        cell == find_cell(w, row, col)
    IN  IF cell = NULL THEN {MissingCell(w, current)}
        ELSE IF Cell(w, cell).state = "VISITING"
        THEN {FailWith(w, current, ERR_CIRCULAR)}
        ELSE UNION {
               IF r.returns THEN {[w |-> r.w, ret |-> NaN]}
               ELSE UNION {
                      IF w1.crashed THEN {[w |-> w1, ret |-> NaN]}
                      ELSE IF Cell(w1, cell).type = "ERROR"
                      THEN {Resolve(w1, current, r.result, r.result_str)}
                      ELSE TokenLoop(w1, current,
                                     IF r.strtok_lost THEN <<>> ELSE rest,
                                     r.result, r.result_str)
                      : w1 \in Register(r.w, cell, current)}
               : r \in ReadOperand(w, current, cell, result, result_str)}

\* A token that starts with no letter.
Literal(w, current, token, rest, result, result_str) ==
    UNION {
      CASE d = "nonzero" -> TokenLoop(w, current, rest, Add(result, atof(token)), result_str)
        [] d = "zero" -> {FailWith(w, current, ERR_INVALID)}
        [] d = "fault" -> {[w |-> Fault(w), ret |-> NaN]}
      : d \in IsdigitOfPointer}

TokenLoop(w, current, tokens, result, result_str) ==
    IF tokens = <<>> THEN {Resolve(w, current, result, result_str)}
    ELSE IF isalpha(Head(tokens)[1])
    THEN Reference(w, current, Head(tokens), Tail(tokens), result, result_str)
    ELSE Literal(w, current, Head(tokens), Tail(tokens), result, result_str)

\* The cells whose state is VISITING.
Visiting(w) == {p \in 1..Len(w.heap) : w.heap[p].value.state = "VISITING"}

\* evaluate_formula(current, current->formula): the outcomes [w, ret].  The
\* call is recorded with its caller and with the cells that are VISITING
\* once it has marked its own.
evaluate_formula(w, current, caller) ==
    LET w1 == SetState(w, current, "VISITING")
        w2 == [w1 EXCEPT !.evals = Append(@, [cell |-> current, caller |-> caller,
                                              visiting |-> Visiting(w1)])]
    IN  TokenLoop(w2, current, strtok(Cell(w, current).formula), Num(0), NULL_STR)

(***************************************************************************)
(* Propagation.                                                            *)
(***************************************************************************)

\* What update_dependencies does with the result of a dependent.
UpdateDependent(o, dependent) ==
    IF o.w.crashed THEN {o.w}
    ELSE IF isnan(o.ret)
    THEN LET w1 == IF Cell(o.w, dependent).type = "ERROR"
                   THEN set_error_and_update(o.w, dependent, ERR_INCOMPATIBLE)
                   ELSE o.w
             c == Cell(w1, dependent)
         IN  IF c.content.k = "text"
             THEN {update_cell_display(w1, c.row, c.col, TextValue(c))}
             \* content holds a double: its bytes are read as a char*.
             ELSE {update_cell_display(w1, c.row, c.col, TextValue(c)), Fault(w1)}
    ELSE LET c == Cell(o.w, dependent)
             w1 == PutCell(o.w, dependent,
                           [c EXCEPT !.type = "NUMBER", !.content = NumberContent(o.ret)])
         IN  {update_cell_display(w1, c.row, c.col, Format1f(o.ret))}

RECURSIVE DependentsLoop(_, _, _)

\* DependentsLoop with a return in place of going on after a dependent whose
\* evaluation returned NAN.
DependentsLoop_Stopping(w, current, i) ==
    IF w.crashed \/ i > Len(Cell(w, current).dependents) THEN {w}
    ELSE LET dependent == Cell(w, current).dependents[i]
         IN  IF dependent = current
             THEN DependentsLoop(set_error_and_update(w, current, ERR_CIRCULAR), current, i + 1)
             ELSE UNION {IF isnan(o.ret) THEN UpdateDependent(o, dependent)
                         ELSE UNION {DependentsLoop(n, current, i + 1)
                                     : n \in UpdateDependent(o, dependent)}
                         : o \in evaluate_formula(w, dependent, "update_dependencies")}

DependentsLoop(w, current, i) ==
    IF w.crashed \/ i > Len(Cell(w, current).dependents) THEN {w}
    ELSE LET dependent == Cell(w, current).dependents[i]
         IN  IF dependent = current
             THEN DependentsLoop(set_error_and_update(w, current, ERR_CIRCULAR), current, i + 1)
             ELSE UNION {DependentsLoop(n, current, i + 1) :
                           n \in UNION {UpdateDependent(o, dependent) :
                                          o \in evaluate_formula(w, dependent,
                                                                 "update_dependencies")}}

\* update_dependencies that calls itself for every dependent it has brought
\* up to date, once.
update_dependencies_Nested(w, current) ==
    IF Len(Cell(w, current).dependents) = 0 THEN {w}
    ELSE UNION {IF w1.crashed THEN {w1}
                ELSE UNION {UNION {DependentsLoop(w3, Cell(w1, current).dependents[i], 1)
                                   : i \in 1..Len(Cell(w1, current).dependents)}
                            : w3 \in DependentsLoop(w1, current, 1)}
                : w1 \in Touch(w, current, "dependents")}

\* The loop reads the list entry by entry: a list of no entries is not read.
update_dependencies(w, current) ==
    IF Len(Cell(w, current).dependents) = 0 THEN {w}
    ELSE UNION {DependentsLoop(w1, current, 1) : w1 \in Touch(w, current, "dependents")}

(***************************************************************************)
(* The interface: set_cell_value, get_textual_value, model_init.           *)
(***************************************************************************)

\* ReplaceOriginalInput without the strdup of the new text: the cell keeps
\* the input it had.
ReplaceOriginalInput_Kept(w, current, text) == {w}

\* An existing cell's original input is released and the new text is
\* copied in its place.
ReplaceOriginalInput(w, current, text) ==
    {IF w1.crashed THEN w1
     ELSE PutCell(w1, current, [Cell(w1, current) EXCEPT
                                  !.original_input = text,
                                  !.released = @ \ {"original_input"}])
     : w1 \in Free(w, current, "original_input")}

\* An existing cell's string is released: the formula of a FORMULA cell (no
\* cell is one between calls), the text of a TEXT or ERROR cell.
ReleaseValue(w, current) ==
    IF Cell(w, current).type = "FORMULA" THEN Free(w, current, "formula")
    ELSE IF Cell(w, current).type \in {"TEXT", "ERROR"} THEN FreeTextValue(w, current)
    ELSE {w}

\* FindOrCreate without the lookup: a cell is created whatever the table holds.
FindOrCreate_Always(w, row, col, text) ==
    {[w |-> create_cell(w, row, col, text), current |-> NewAddress(w)]}

\* The cell set_cell_value works on, found or created.
FindOrCreate(w, row, col, text) ==
    LET current == find_cell(w, row, col)
    IN  IF current = NULL
        THEN {[w |-> create_cell(w, row, col, text), current |-> NewAddress(w)]}
        ELSE {[w |-> w2, current |-> current]
              : w2 \in UNION {IF w1.crashed THEN {w1} ELSE ReleaseValue(w1, current)
                              : w1 \in ReplaceOriginalInput(w, current, text)}}

\* StoreNumber without the assignment of the type.
StoreNumber_Untyped(w, current, row, col, formula_result) ==
    update_cell_display(
        PutCell(w, current, [Cell(w, current) EXCEPT
                               !.content = NumberContent(formula_result)]),
        row, col, Format1f(formula_result))

\* A formula with a numeric result: the cell becomes a NUMBER and shows it.
\* (computed_value, written here and read back at once, is not kept.)
StoreNumber(w, current, row, col, formula_result) ==
    update_cell_display(
        PutCell(w, current, [Cell(w, current) EXCEPT
                               !.type = "NUMBER",
                               !.content = NumberContent(formula_result)]),
        row, col, Format1f(formula_result))

\* A formula whose evaluation returned NAN: a cell still FORMULA becomes an
\* ERROR showing its input; the cell's text is shown, and set_cell_value
\* returns.
StoreNotNumber(w, current, row, col) ==
    LET w1 == IF Cell(w, current).type = "FORMULA"
              THEN PutCell(w, current,
                           [Cell(w, current) EXCEPT
                              !.type = "ERROR",
                              !.content = TextContent(Cell(w, current).original_input)])
              ELSE w
    IN  update_cell_display(w1, row, col, TextValue(Cell(w1, current)))

\* text starts with '=': the outcomes, and whether set_cell_value goes on to
\* update_dependencies.
FormulaPath(w, current, row, col, text) ==
    LET w1 == PutCell(w, current, [Cell(w, current) EXCEPT !.type = "FORMULA",
                                                           !.formula = Tail(text),
                                                           !.released = @ \ {"formula"}])
    IN  {IF o.w.crashed THEN [w |-> o.w, propagate |-> FALSE]
         ELSE IF isnan(o.ret)
         THEN [w |-> StoreNotNumber(o.w, current, row, col), propagate |-> FALSE]
         ELSE [w |-> StoreNumber(o.w, current, row, col, o.ret), propagate |-> TRUE]
         : o \in evaluate_formula(w1, current, "set_cell_value")}

\* text is no formula: a NUMBER when strtod reads all of it, else a TEXT.
PlainPath(w, current, row, col, text) ==
    LET c == Cell(w, current)
        r == strtod(text)
    IN  update_cell_display(
            IF r.end = Len(text) + 1
            THEN PutCell(w, current, [c EXCEPT !.type = "NUMBER",
                                               !.content = NumberContent(r.val)])
            ELSE PutCell(w, current, [c EXCEPT !.type = "TEXT",
                                               !.content = TextContent(text)]),
            row, col, text)

IsFormulaText(text) == text # <<>> /\ text[1] = "="

set_cell_value(w, row, col, text) ==
    UNION {
      IF fc.w.crashed THEN {fc.w}
      ELSE IF IsFormulaText(text)
      THEN UNION {IF r.propagate THEN update_dependencies(r.w, fc.current) ELSE {r.w}
                  : r \in FormulaPath(fc.w, fc.current, row, col, text)}
      ELSE update_dependencies(PlainPath(fc.w, fc.current, row, col, text), fc.current)
      : fc \in FindOrCreate(w, row, col, text)}

\* get_textual_value with a lookup that allocates: a coordinate with no cell
\* gets one, and NULL is returned.
get_textual_value_Creating(w, row, col) ==
    IF find_cell(w, row, col) # NULL
    THEN {[w |-> w, found |-> TRUE, text |-> Cell(w, find_cell(w, row, col)).original_input]}
    ELSE {[w |-> create_cell(w, row, col, <<>>), found |-> FALSE, text |-> <<>>]}

\* get_textual_value(row, col): the outcomes [w, found, text], a copy of
\* original_input or NULL for a coordinate with no cell.  The copy of a
\* released original_input holds what the allocator left there, or the read
\* faults.
get_textual_value(w, row, col) ==
    LET current == find_cell(w, row, col)
    IN  IF current # NULL
        THEN {IF w1.crashed THEN [w |-> w1, found |-> FALSE, text |-> <<>>]
              ELSE [w |-> w1, found |-> TRUE,
                    text |-> IF "original_input" \in Cell(w1, current).released
                             THEN GARBAGE ELSE Cell(w1, current).original_input]
              : w1 \in Touch(w, current, "original_input")}
        ELSE {[w |-> w, found |-> FALSE, text |-> <<>>]}

\* model_destroy(): free_cell for every node of every chain; next is read
\* from the node before the call that releases it.
RECURSIVE DestroyChain(_, _)
DestroyChain(w, current) ==
    IF w.crashed \/ current = NULL THEN {w}
    ELSE LET next == w.heap[current].next
         IN  UNION {DestroyChain(w1, next)
                    : w1 \in free_cell(w, w.heap[current].value.row,
                                       w.heap[current].value.col)}

RECURSIVE DestroyFrom(_, _)
DestroyFrom(w, i) ==
    IF w.crashed \/ i >= HASH_SIZE THEN {w}
    ELSE LET rest == {j \in DOMAIN w.spreadsheet : j >= i}
         IN  IF rest = {} THEN {w}
             ELSE LET j == CHOOSE k \in rest : \A l \in rest : k <= l
                  IN  UNION {DestroyFrom(w1, j + 1) : w1 \in DestroyChain(w, Bucket(w, j))}

model_destroy(w) == DestroyFrom(w, 0)

\* Every bucket is NULL.
model_init == <<>>

(***************************************************************************)
(* The state machine.                                                      *)
(***************************************************************************)

\* The coordinates the calls address: A1, A2, A3.
Coords == {<<0, 0>>, <<1, 0>>, <<2, 0>>}

\* The texts the calls supply.
T_0 == <<"0">>
T_5 == <<"5">>
T_hi == <<"h", "i">>
T_nan == <<"n", "a", "n">>
F_A2 == <<"=", "A", "2">>
F_A1_A1 == <<"=", "A", "1", "+", "A", "1">>
F_A1_A2 == <<"=", "A", "1", "+", "A", "2">>
F_A1_3 == <<"=", "A", "1", "+", "3">>

Texts == {T_0, T_5, T_hi, T_nan, F_A2, F_A1_A1, F_A1_A2, F_A1_3}

World == [spreadsheet |-> spreadsheet, heap |-> heap, display |-> display,
          evals |-> evals, crashed |-> crashed]

NO_RESULT == [found |-> FALSE, text |-> <<>>]

Init ==
    /\ spreadsheet = model_init
    /\ heap = <<>>
    /\ display = <<>>
    /\ evals = <<>>
    /\ crashed = FALSE
    /\ last = [op |-> "model_init", row |-> 0, col |-> 0, text |-> <<>>, ret |-> NO_RESULT]
    /\ calls = 0
    /\ supplied = <<>>

\* One call of set_cell_value.  display and evals hold the calls it made.  A
\* call that faults leaves no memory to look at: only crashed changes.
SetCellValue(row, col, text) ==
    /\ ~crashed
    /\ calls < MaxCalls
    /\ \E n \in set_cell_value([World EXCEPT !.display = <<>>, !.evals = <<>>],
                               row, col, text) :
          IF n.crashed
          THEN /\ crashed' = TRUE
               /\ UNCHANGED <<spreadsheet, heap, display, evals, supplied>>
          ELSE /\ spreadsheet' = n.spreadsheet
               /\ heap' = n.heap
               /\ display' = n.display
               /\ evals' = n.evals
               /\ crashed' = FALSE
               /\ supplied' = (<<row, col>> :> text) @@ supplied
    /\ last' = [op |-> "set_cell_value", row |-> row, col |-> col, text |-> text,
                ret |-> NO_RESULT]
    /\ calls' = calls + 1

\* One call of get_textual_value.
GetTextualValue(row, col) ==
    /\ ~crashed
    /\ calls < MaxCalls
    /\ \E o \in get_textual_value([World EXCEPT !.display = <<>>, !.evals = <<>>],
                                   row, col) :
          IF o.w.crashed
          THEN /\ crashed' = TRUE
               /\ last' = [op |-> "get_textual_value", row |-> row, col |-> col,
                           text |-> <<>>, ret |-> NO_RESULT]
               /\ UNCHANGED <<spreadsheet, heap, display, evals>>
          ELSE /\ spreadsheet' = o.w.spreadsheet
               /\ heap' = o.w.heap
               /\ display' = o.w.display
               /\ evals' = o.w.evals
               /\ crashed' = FALSE
               /\ last' = [op |-> "get_textual_value", row |-> row, col |-> col,
                           text |-> <<>>,
                           ret |-> [found |-> o.found, text |-> o.text]]
    /\ calls' = calls + 1
    /\ UNCHANGED supplied

\* One call of clear_cell.
ClearCell(row, col) ==
    /\ ~crashed
    /\ calls < MaxCalls
    /\ \E n \in clear_cell([World EXCEPT !.display = <<>>, !.evals = <<>>], row, col) :
          IF n.crashed
          THEN /\ crashed' = TRUE
               /\ UNCHANGED <<spreadsheet, heap, display, evals>>
          ELSE /\ spreadsheet' = n.spreadsheet
               /\ heap' = n.heap
               /\ display' = n.display
               /\ evals' = n.evals
               /\ crashed' = FALSE
    /\ last' = [op |-> "clear_cell", row |-> row, col |-> col, text |-> <<>>,
                ret |-> NO_RESULT]
    /\ calls' = calls + 1
    /\ UNCHANGED supplied

\* One call of model_destroy.
ModelDestroy ==
    /\ ~crashed
    /\ calls < MaxCalls
    /\ \E n \in model_destroy([World EXCEPT !.display = <<>>, !.evals = <<>>]) :
          IF n.crashed
          THEN /\ crashed' = TRUE
               /\ UNCHANGED <<spreadsheet, heap, display, evals>>
          ELSE /\ spreadsheet' = n.spreadsheet
               /\ heap' = n.heap
               /\ display' = n.display
               /\ evals' = n.evals
               /\ crashed' = FALSE
    /\ last' = [op |-> "model_destroy", row |-> 0, col |-> 0, text |-> <<>>,
                ret |-> NO_RESULT]
    /\ calls' = calls + 1
    /\ UNCHANGED supplied

Next ==
    \/ \E rc \in Coords, text \in Texts : SetCellValue(rc[1], rc[2], text)
    \/ \E rc \in Coords : GetTextualValue(rc[1], rc[2])

Spec == Init /\ [][Next]_vars

\* The interface with clear_cell and model_destroy: the texts are a number,
\* a text and a formula.
LifeTexts == {T_5, T_hi, F_A1_A1}

LifeNext ==
    \/ \E rc \in Coords, text \in LifeTexts : SetCellValue(rc[1], rc[2], text)
    \/ \E rc \in Coords : GetTextualValue(rc[1], rc[2])
    \/ \E rc \in Coords : ClearCell(rc[1], rc[2])
    \/ ModelDestroy

LifeSpec == Init /\ [][LifeNext]_vars

(***************************************************************************)
(* What the properties speak of.  These read the heap directly, not        *)
(* through the operators above.                                            *)
(***************************************************************************)

Nodes(h) == 1..Len(h)

Exists(h, row, col) == \E p \in Nodes(h) : h[p].value.row = row /\ h[p].value.col = col

At(h, row, col) == CHOOSE p \in Nodes(h) : h[p].value.row = row /\ h[p].value.col = col

SetReturned == last.op = "set_cell_value" /\ ~crashed

\* The coordinates a reference token names: one letter, then a 1-based row.
TokenCol(token) == Ord(token[1]) - 65

TokenRow(token) == atoi(Tail(token)) - 1

IsReference(token) == isalpha(token[1])

\* The token names a cell of h other than the one at (row, col).
NamesOther(h, token, row, col) ==
    /\ IsReference(token)
    /\ <<TokenRow(token), TokenCol(token)>> # <<row, col>>
    /\ Exists(h, TokenRow(token), TokenCol(token))

Operand(h, token) == h[At(h, TokenRow(token), TokenCol(token))].value

\* Every operand of formula names a cell of h, other than the one at
\* (row, col), whose type is in types.
OperandsAre(h, formula, row, col, types) ==
    \A i \in 1..Len(strtok(formula)) :
        /\ NamesOther(h, strtok(formula)[i], row, col)
        /\ Operand(h, strtok(formula)[i]).type \in types

\* The sum of the NUMBER operands among tokens, the concatenation of the
\* TEXT operands.
RECURSIVE NumericSum(_, _)
NumericSum(h, tokens) ==
    IF tokens = <<>> THEN Num(0)
    ELSE IF Operand(h, Head(tokens)).type = "NUMBER"
    THEN Add(Operand(h, Head(tokens)).content.num, NumericSum(h, Tail(tokens)))
    ELSE NumericSum(h, Tail(tokens))

RECURSIVE Concatenation(_, _)
Concatenation(h, tokens) ==
    IF tokens = <<>> THEN <<>>
    ELSE IF Operand(h, Head(tokens)).type = "TEXT"
    THEN Operand(h, Head(tokens)).content.text \o Concatenation(h, Tail(tokens))
    ELSE Concatenation(h, Tail(tokens))

\* The display was told that (row, col) shows text.
Displayed(d, row, col, text) ==
    \E i \in 1..Len(d) : d[i] = [row |-> row, col |-> col, text |-> text]

\* The cells update_dependencies re-evaluated in the last call, in order.
Reevaluated(e) ==
    SelectSeq(e, LAMBDA x : x.caller = "update_dependencies")

TimesReevaluated(e, p) ==
    Cardinality({i \in 1..Len(e) : e[i].cell = p /\ e[i].caller = "update_dependencies"})

\* The cells the formula last supplied to p names (none if p's input is no formula).
Reads(h, p) ==
    IF IsFormulaText(h[p].value.original_input)
    THEN {q \in Nodes(h) : \E i \in 1..Len(strtok(Tail(h[p].value.original_input))) :
            LET token == strtok(Tail(h[p].value.original_input))[i]
            IN  /\ IsReference(token)
                /\ h[q].value.row = TokenRow(token)
                /\ h[q].value.col = TokenCol(token)}
    ELSE {}

\* The cells p reads through a chain of at most n formulas.
RECURSIVE ReadsWithin(_, _, _)
ReadsWithin(h, p, n) ==
    IF n = 0 THEN {}
    ELSE Reads(h, p) \cup UNION {ReadsWithin(h, q, n - 1) : q \in Reads(h, p)}

ReadsThroughChain(h, p) == ReadsWithin(h, p, Len(h))

(***************************************************************************)
(* The properties.                                                         *)
(***************************************************************************)

\* C1: get_textual_value returns, for every coordinate, exactly the text
\* last supplied to set_cell_value for it, whatever the text is and whatever
\* calls on other coordinates followed.
C1_RoundTrip ==
    /\ ~crashed =>
          \A rc \in DOMAIN supplied :
              get_textual_value(World, rc[1], rc[2])
                  = {[w |-> World, found |-> TRUE, text |-> supplied[rc]]}
    /\ (last.op = "get_textual_value" /\ <<last.row, last.col>> \in DOMAIN supplied)
          => last.ret = [found |-> TRUE, text |-> supplied[<<last.row, last.col>>]]

\* C1's case: a formula cell whose value propagation has since turned into
\* a text is asked for its input, and the formula comes back.
C1_Witness ==
    /\ last.op = "get_textual_value"
    /\ last.ret = [found |-> TRUE, text |-> F_A1_A1]
    /\ Exists(heap, last.row, last.col)
    /\ heap[At(heap, last.row, last.col)].value.type = "TEXT"

\* C10: no cell of the store is of FORMULA type once a call has returned.
C10_NoFormulaKind ==
    \A p \in Nodes(heap) : heap[p].value.type \in {"NUMBER", "TEXT", "ERROR"}

\* C10's case: a call returned after update_dependencies re-evaluated a
\* dependent into an error.
C10_Witness ==
    /\ SetReturned
    /\ \E i \in 1..Len(evals) :
          /\ evals[i].caller = "update_dependencies"
          /\ heap[evals[i].cell].value.type = "ERROR"

\* The step is a call of set_cell_value that returned.
SetStep == last'.op = "set_cell_value" /\ ~crashed'

\* C2 (as claimed): when a NUMBER cell S is set to a numeric text, every
\* cell D that holds the numeric result of a formula over existing NUMBER
\* cells, S among them, is afterwards a NUMBER equal to the sum of its
\* operands' current values, and the display was told so.
C2_DirectPropagation ==
    [][(/\ SetStep
        /\ ~IsFormulaText(last'.text)
        /\ Exists(heap', last'.row, last'.col)
        /\ heap'[At(heap', last'.row, last'.col)].value.type = "NUMBER")
       => \A d \in Nodes(heap) :
            LET D == heap[d].value
            IN  (/\ IsFormulaText(D.original_input)
                 /\ D.type = "NUMBER"
                 /\ OperandsAre(heap, Tail(D.original_input), D.row, D.col, {"NUMBER"})
                 /\ \E q \in Reads(heap, d) :
                       <<heap[q].value.row, heap[q].value.col>> = <<last'.row, last'.col>>)
                => /\ heap'[d].value.type = "NUMBER"
                   /\ heap'[d].value.content.num
                        = NumericSum(heap', strtok(Tail(D.original_input)))
                   /\ Displayed(display', D.row, D.col,
                                Format1f(NumericSum(heap', strtok(Tail(D.original_input)))))
      ]_vars

\* A cell holds what its formula gives over the current values of its
\* operands, for a formula over NUMBER cells with finite values.
UpToDate(h, p) ==
    LET D == h[p].value
        tokens == strtok(Tail(D.original_input))
    IN  (/\ OperandsAre(h, Tail(D.original_input), D.row, D.col, {"NUMBER"})
         /\ ~isnan(NumericSum(h, tokens)))
        => /\ D.type = "NUMBER"
           /\ D.content.num = NumericSum(h, tokens)

\* C3 (as claimed): after a set_cell_value returns, every cell that reads
\* the set cell through a chain of formulas holds its formula's value over
\* the current values of its operands.  It is stated of the cells that held
\* their formula's numeric result before the call.
C3_TransitivePropagation ==
    [][SetStep =>
        \A p \in Nodes(heap) :
            (/\ IsFormulaText(heap[p].value.original_input)
             /\ heap[p].value.type = "NUMBER"
             /\ <<heap[p].value.row, heap[p].value.col>> # <<last'.row, last'.col>>
             /\ At(heap', last'.row, last'.col) \in ReadsThroughChain(heap', p))
            => UpToDate(heap', p)
      ]_vars

\* C4 (as claimed): a set_cell_value that returned re-evaluated every
\* dependent of the set cell, whatever the text was.
C4_DependentsReevaluated ==
    SetReturned =>
        LET deps == heap[At(heap, last.row, last.col)].value.dependents
        IN  \A i \in 1..Len(deps) : TimesReevaluated(evals, deps[i]) >= 1

\* C5 (as claimed): a formula whose operands all name existing NUMBER cells
\* leaves the set cell a NUMBER equal to their sum, shown to one decimal.
C5_AdditiveFormula ==
    [][(/\ SetStep
        /\ IsFormulaText(last'.text)
        /\ OperandsAre(heap, Tail(last'.text), last'.row, last'.col, {"NUMBER"}))
       => LET sum == NumericSum(heap, strtok(Tail(last'.text)))
              X == heap'[At(heap', last'.row, last'.col)].value
          IN  /\ X.type = "NUMBER"
              /\ X.content.num = sum
              /\ Displayed(display', last'.row, last'.col, Format1f(sum))
      ]_vars

\* C6 (as claimed): after a set_cell_value returns, every cell whose last
\* supplied formula lies on a cycle of references is an ERROR carrying the
\* circular-dependency message.  It is stated of the formulas whose operands
\* all name cells of the store.
C6_CycleRejection ==
    SetReturned =>
        \A p \in Nodes(heap) :
            (/\ p \in ReadsThroughChain(heap, p)
             /\ \A i \in 1..Len(strtok(Tail(heap[p].value.original_input))) :
                   LET token == strtok(Tail(heap[p].value.original_input))[i]
                   IN  IsReference(token) /\ Exists(heap, TokenRow(token), TokenCol(token)))
            => /\ heap[p].value.type = "ERROR"
               /\ heap[p].value.content.text = ERR_CIRCULAR

\* What C7 says of the cell at (row, col) of h1 once its formula was
\* evaluated over the operands as they are in h: with a TEXT operand, an
\* ERROR with the incompatible-types message when the NUMBER operands sum to
\* a non-zero value, the concatenation of the TEXT operands otherwise.
TypeMixOutcome(h, h1, formula, row, col) ==
    LET tokens == strtok(formula)
        X == h1[At(h1, row, col)].value
    IN  (/\ OperandsAre(h, formula, row, col, {"NUMBER", "TEXT"})
         /\ \E i \in 1..Len(tokens) : Operand(h, tokens[i]).type = "TEXT")
        => IF NonZero(NumericSum(h, tokens))
           THEN X.type = "ERROR" /\ X.content.text = ERR_INCOMPATIBLE
           ELSE X.type = "TEXT" /\ X.content.text = Concatenation(h, tokens)

\* The operands of the formula of cell p were not re-evaluated by the last
\* call: they are now what they were when p was.
OperandsSettled(h, e, p) ==
    \A q \in Nodes(h) :
        (\E i \in 1..Len(strtok(h[p].value.formula)) :
            LET token == strtok(h[p].value.formula)[i]
            IN  /\ IsReference(token)
                /\ h[q].value.row = TokenRow(token)
                /\ h[q].value.col = TokenCol(token))
        => TimesReevaluated(e, q) = 0

\* C7: a formula whose operands are NUMBER and TEXT cells, one TEXT at least,
\* leaves the evaluating cell an ERROR (incompatible types) when the numeric
\* sum is not zero and a TEXT holding the concatenated string when it is:
\* for the cell set_cell_value is called on, and for every dependent that
\* update_dependencies re-evaluates.
C7_TypeMix ==
    [][SetStep =>
        /\ IsFormulaText(last'.text)
              => TypeMixOutcome(heap, heap', Tail(last'.text), last'.row, last'.col)
        /\ \A p \in Nodes(heap') :
              (TimesReevaluated(evals', p) > 0 /\ OperandsSettled(heap', evals', p))
              => TypeMixOutcome(heap', heap', heap'[p].value.formula,
                                heap'[p].value.row, heap'[p].value.col)
      ]_vars

\* C7's case: the call set =A1+A2 over a TEXT and a non-zero NUMBER, and
\* the cell is an ERROR with the incompatible-types message.
C7_Witness ==
    /\ SetReturned
    /\ last.text = F_A1_A2
    /\ OperandsAre(heap, Tail(F_A1_A2), last.row, last.col, {"NUMBER", "TEXT"})
    /\ \E i \in 1..2 : Operand(heap, strtok(Tail(F_A1_A2))[i]).type = "TEXT"
    /\ NonZero(NumericSum(heap, strtok(Tail(F_A1_A2))))
    /\ heap[At(heap, last.row, last.col)].value.type = "ERROR"
    /\ heap[At(heap, last.row, last.col)].value.content.text = ERR_INCOMPATIBLE

\* The k-th operand of formula names a coordinate, other than (row, col),
\* that has no cell in h.
NamesMissing(h, formula, k, row, col) ==
    LET token == strtok(formula)[k]
    IN  /\ IsReference(token)
        /\ <<TokenRow(token), TokenCol(token)>> # <<row, col>>
        /\ ~Exists(h, TokenRow(token), TokenCol(token))

\* What C8 says of a call whose formula names, as its k-th operand, a
\* coordinate with no cell: the set cell is an ERROR with the
\* invalid-reference message, no cell was created but the set cell itself,
\* and the coordinate has no cell, so no list of dependents, afterwards.
MissingReferenceOutcome(k) ==
    LET token == strtok(Tail(last'.text))[k]
        X == heap'[At(heap', last'.row, last'.col)].value
    IN  /\ X.type = "ERROR"
        /\ X.content.text = ERR_INVALID
        /\ ~Exists(heap', TokenRow(token), TokenCol(token))
        /\ find_cell(World', TokenRow(token), TokenCol(token)) = NULL
        /\ Len(heap') = Len(heap) + (IF Exists(heap, last'.row, last'.col) THEN 0 ELSE 1)
        /\ \A p \in Nodes(heap') : \A i \in 1..Len(heap'[p].value.dependents) :
              heap'[p].value.dependents[i] \in Nodes(heap')

\* C8 (as claimed): a formula that names a coordinate with no cell leaves
\* the set cell an ERROR with the invalid-reference message and creates no
\* cell there.
C8_MissingReference ==
    [][(SetStep /\ IsFormulaText(last'.text))
       => \A k \in 1..Len(strtok(Tail(last'.text))) :
            NamesMissing(heap, Tail(last'.text), k, last'.row, last'.col)
                => MissingReferenceOutcome(k)
      ]_vars

\* C8 (amended): the same, for a formula in which every operand before the
\* missing one names an existing NUMBER or TEXT cell other than the set cell.
C8_FirstFailureMissing ==
    [][(SetStep /\ IsFormulaText(last'.text))
       => \A k \in 1..Len(strtok(Tail(last'.text))) :
            (/\ NamesMissing(heap, Tail(last'.text), k, last'.row, last'.col)
             /\ \A j \in 1..(k - 1) :
                   LET token == strtok(Tail(last'.text))[j]
                   IN  /\ NamesOther(heap, token, last'.row, last'.col)
                       /\ Operand(heap, token).type \in {"NUMBER", "TEXT"})
            => MissingReferenceOutcome(k)
      ]_vars

\* C8's case: =A1+A2 was set while A1 is a cell and A2 is none; the set cell
\* is an ERROR with the invalid-reference message and A2 is still no cell.
C8_Witness ==
    /\ SetReturned
    /\ last.text = F_A1_A2
    /\ <<last.row, last.col>> = <<2, 0>>
    /\ Exists(heap, 0, 0)
    /\ ~Exists(heap, 1, 0)
    /\ heap[At(heap, 2, 0)].value.type = "ERROR"
    /\ heap[At(heap, 2, 0)].value.content.text = ERR_INVALID
    /\ heap[At(heap, 0, 0)].value.dependents = <<At(heap, 2, 0)>>

\* No dependents list names a cell twice.
NoDuplicateDependents ==
    \A p \in Nodes(heap) :
        \A i, j \in 1..Len(heap[p].value.dependents) :
            heap[p].value.dependents[i] = heap[p].value.dependents[j] => i = j

\* C9 (as claimed): no dependents list names a cell twice, and a
\* set_cell_value that returned re-evaluated each dependent of the set cell
\* exactly once.
C9_IdempotentRegistration ==
    /\ NoDuplicateDependents
    /\ SetReturned =>
          LET deps == heap[At(heap, last.row, last.col)].value.dependents
          IN  \A i \in 1..Len(deps) : TimesReevaluated(evals, deps[i]) = 1

\* C11: the store holds at most one cell per coordinate, and that cell is
\* the one the table finds there; a set_cell_value on an existing coordinate
\* keeps the cell's node and its dependents list, and adds no node.
C11_KeyUniqueness ==
    [][SetStep =>
        /\ \A p, q \in Nodes(heap') :
              <<heap'[p].value.row, heap'[p].value.col>>
                  = <<heap'[q].value.row, heap'[q].value.col>> => p = q
        /\ \A p \in Nodes(heap') :
              find_cell(World', heap'[p].value.row, heap'[p].value.col) = p
        /\ Exists(heap, last'.row, last'.col) =>
              LET p == At(heap, last'.row, last'.col)
              IN  /\ Len(heap') = Len(heap)
                  /\ spreadsheet' = spreadsheet
                  /\ find_cell(World', last'.row, last'.col) = p
                  /\ heap'[p].key = heap[p].key
                  /\ heap'[p].next = heap[p].next
                  /\ heap'[p].value.dependents = heap[p].value.dependents
      ]_vars

\* C11's case: a cell that other cells depend on was set again, and it is
\* still the only cell of its coordinate.
C11_Witness ==
    /\ SetReturned
    /\ Len(heap) >= 2
    /\ heap[At(heap, last.row, last.col)].value.dependents # <<>>
    /\ heap[At(heap, last.row, last.col)].value.original_input = last.text
    /\ Cardinality({p \in Nodes(heap) :
                      <<heap[p].value.row, heap[p].value.col>> = <<last.row, last.col>>}) = 1

\* C12 (as claimed): a call of model_destroy completes, on a store of any
\* number of cells, with no cell left at any coordinate; on an empty store it
\* changes nothing.
C12_ModelDestroy ==
    [][last'.op = "model_destroy" =>
        /\ ~crashed'
        /\ \A rc \in Coords : find_cell(World', rc[1], rc[2]) = NULL
        /\ spreadsheet = <<>> => (spreadsheet' = spreadsheet /\ heap' = heap)
      ]_vars

\* C13 (as claimed): no get_textual_value and no set_cell_value works on a
\* cell one of whose buffers (the original input, the text or error value,
\* the dependents list) was released: the table finds no cell at a cleared
\* coordinate, or a cell that owns all its buffers.
C13_NoUseAfterClear ==
    [][last'.op \in {"get_textual_value", "set_cell_value"} =>
        LET p == find_cell(World, last'.row, last'.col)
        IN  p # NULL => /\ heap[p].value.released = {}
                        /\ heap[p].value.content.k # "freed"
      ]_vars

\* C14: get_textual_value on a coordinate with no cell returns NULL and
\* leaves the table and every cell as they were; a set_cell_value that
\* follows it with a formula whose first operand names that coordinate
\* leaves the set cell an ERROR with the invalid-reference message.
C14_GetAbsent ==
    [][/\ (last'.op = "get_textual_value" /\ ~Exists(heap, last'.row, last'.col))
            => /\ ~crashed'
               /\ last'.ret = NO_RESULT
               /\ heap' = heap
               /\ spreadsheet' = spreadsheet
       /\ (/\ last.op = "get_textual_value"
           /\ last.ret = NO_RESULT
           /\ SetStep
           /\ IsFormulaText(last'.text)
           /\ <<last'.row, last'.col>> # <<last.row, last.col>>
           /\ LET token == strtok(Tail(last'.text))[1]
              IN  IsReference(token) /\ <<TokenRow(token), TokenCol(token)>> = <<last.row, last.col>>)
            => /\ heap'[At(heap', last'.row, last'.col)].value.type = "ERROR"
               /\ heap'[At(heap', last'.row, last'.col)].value.content.text = ERR_INVALID
               /\ ~Exists(heap', last.row, last.col)
      ]_vars

\* C14's case: the store holds cells, and a get_textual_value on a
\* coordinate that has none returned NULL.
C14_Witness ==
    /\ last.op = "get_textual_value"
    /\ ~crashed
    /\ last.ret = NO_RESULT
    /\ heap # <<>>
    /\ ~Exists(heap, last.row, last.col)
    /\ find_cell(World, last.row, last.col) = NULL

\* How many times the display was told about (row, col).
TimesDisplayed(d, row, col) ==
    Cardinality({i \in 1..Len(d) : d[i].row = row /\ d[i].col = col})

\* C15 (as claimed): a set_cell_value that returned called
\* update_cell_display once for the set cell and once for each dependent it
\* re-evaluated, and for no other cell.
C15_DisplayOncePerChange ==
    SetReturned =>
        \A p \in Nodes(heap) :
            TimesDisplayed(display, heap[p].value.row, heap[p].value.col)
                = (IF <<heap[p].value.row, heap[p].value.col>> = <<last.row, last.col>>
                   THEN 1 ELSE 0) + TimesReevaluated(evals, p)

\* C16 (as claimed): a set_cell_value on another coordinate leaves every
\* ERROR cell an ERROR.  It is stated of the cells whose error is a mix of
\* types in a formula of references.
C16_ErrorStaysError ==
    [][SetStep =>
        \A p \in Nodes(heap) :
            (/\ heap[p].value.type = "ERROR"
             /\ heap[p].value.content.text = ERR_INCOMPATIBLE
             /\ \A i \in 1..Len(strtok(heap[p].value.formula)) :
                   IsReference(strtok(heap[p].value.formula)[i])
             /\ <<heap[p].value.row, heap[p].value.col>> # <<last'.row, last'.col>>)
            => heap'[p].value.type = "ERROR"
      ]_vars

\* C17: once a call has returned every cell is UNVISITED; and every
\* evaluate_formula of the call ran with its own cell as the only VISITING
\* one, called by set_cell_value or update_dependencies and never by another
\* evaluate_formula: the VISITING cells were the cells of the call stack.
C17_VisitMarkRestored ==
    /\ \A p \in Nodes(heap) : heap[p].value.state = "UNVISITED"
    /\ \A i \in 1..Len(evals) :
          /\ evals[i].visiting = {evals[i].cell}
          /\ evals[i].caller \in {"set_cell_value", "update_dependencies"}

\* C17's case: a call returned whose propagation re-evaluated a dependent
\* into an error, after the set cell's own formula was evaluated.
C17_Witness ==
    /\ SetReturned
    /\ Len(evals) >= 2
    /\ evals[1].caller = "set_cell_value"
    /\ \E i \in 2..Len(evals) :
          /\ evals[i].caller = "update_dependencies"
          /\ heap[evals[i].cell].value.type = "ERROR"
          /\ heap[evals[i].cell].value.state = "UNVISITED"

\* No cell is in its own dependents list.
NoSelfDependent ==
    \A p \in Nodes(heap) :
        \A i \in 1..Len(heap[p].value.dependents) : heap[p].value.dependents[i] # p

\* C18 (as claimed): a set_cell_value whose formula names the set cell
\* itself leaves the cell an ERROR, and no cell is ever in its own dependents
\* list.
C18_SelfReference ==
    [][SetStep =>
        /\ \A p \in Nodes(heap') :
              \A i \in 1..Len(heap'[p].value.dependents) :
                  heap'[p].value.dependents[i] # p
        /\ (/\ IsFormulaText(last'.text)
            /\ \E i \in 1..Len(strtok(Tail(last'.text))) :
                  LET token == strtok(Tail(last'.text))[i]
                  IN  /\ IsReference(token)
                      /\ <<TokenRow(token), TokenCol(token)>> = <<last'.row, last'.col>>)
           => heap'[At(heap', last'.row, last'.col)].value.type = "ERROR"
      ]_vars

\* The token is a decimal literal: it starts with no letter and strtod reads
\* all of it.
IsLiteral(token) ==
    /\ ~IsReference(token)
    /\ strtod(token).end = Len(token) + 1

\* The sum of tokens that are literals or name NUMBER cells of h.
RECURSIVE LiteralSum(_, _)
LiteralSum(h, tokens) ==
    IF tokens = <<>> THEN Num(0)
    ELSE Add(IF IsLiteral(Head(tokens)) THEN atof(Head(tokens))
             ELSE Operand(h, Head(tokens)).content.num,
             LiteralSum(h, Tail(tokens)))

\* C19 (as claimed): a formula whose operands are numeric literals, one at
\* least, and references to NUMBER cells leaves the set cell a NUMBER equal
\* to the sum of the literals and the cells' values.
C19_NumericLiterals ==
    [][(/\ SetStep
        /\ IsFormulaText(last'.text)
        /\ \E i \in 1..Len(strtok(Tail(last'.text))) : IsLiteral(strtok(Tail(last'.text))[i])
        /\ \A i \in 1..Len(strtok(Tail(last'.text))) :
              LET token == strtok(Tail(last'.text))[i]
              IN  \/ IsLiteral(token)
                  \/ /\ NamesOther(heap, token, last'.row, last'.col)
                     /\ Operand(heap, token).type = "NUMBER"
                     /\ ~isnan(Operand(heap, token).content.num))
       => LET X == heap'[At(heap', last'.row, last'.col)].value
          IN  /\ X.type = "NUMBER"
              /\ X.content.num = LiteralSum(heap, strtok(Tail(last'.text)))
      ]_vars

\* The k-th operand of formula is the first that names an ERROR cell of h:
\* the operands before it name NUMBER and TEXT cells, none the cell at
\* (row, col).
FirstErrorOperand(h, formula, k, row, col) ==
    /\ k \in 1..Len(strtok(formula))
    /\ NamesOther(h, strtok(formula)[k], row, col)
    /\ Operand(h, strtok(formula)[k]).type = "ERROR"
    /\ \A j \in 1..(k - 1) :
          /\ NamesOther(h, strtok(formula)[j], row, col)
          /\ Operand(h, strtok(formula)[j]).type \in {"NUMBER", "TEXT"}

\* C20 (as claimed): a formula that reads an ERROR cell leaves the
\* evaluating cell an ERROR carrying that cell's message: the cell
\* set_cell_value is called on, and every dependent that
\* update_dependencies re-evaluates.
C20_ErrorContagious ==
    [][SetStep =>
        /\ IsFormulaText(last'.text) =>
              \A k \in 1..Len(strtok(Tail(last'.text))) :
                  FirstErrorOperand(heap, Tail(last'.text), k, last'.row, last'.col)
                  => LET X == heap'[At(heap', last'.row, last'.col)].value
                     IN  /\ X.type = "ERROR"
                         /\ X.content.text
                              = Operand(heap, strtok(Tail(last'.text))[k]).content.text
        /\ \A p \in Nodes(heap') :
              (TimesReevaluated(evals', p) > 0 /\ OperandsSettled(heap', evals', p))
              => \A k \in 1..Len(strtok(heap'[p].value.formula)) :
                    FirstErrorOperand(heap', heap'[p].value.formula, k,
                                      heap'[p].value.row, heap'[p].value.col)
                    => /\ heap'[p].value.type = "ERROR"
                       /\ heap'[p].value.content.text
                            = Operand(heap', strtok(heap'[p].value.formula)[k]).content.text
      ]_vars

\* The evaluation of formula for the cell at (row, col) of h fails on a
\* reference to a coordinate with no cell: the operands before it name NUMBER
\* and TEXT cells, none the cell itself.
FailsMissing(h, formula, row, col) ==
    \E k \in 1..Len(strtok(formula)) :
        /\ NamesMissing(h, formula, k, row, col)
        /\ \A j \in 1..(k - 1) :
              /\ NamesOther(h, strtok(formula)[j], row, col)
              /\ Operand(h, strtok(formula)[j]).type \in {"NUMBER", "TEXT"}

\* The same, for a failure on a reference to the cell itself.
FailsCircular(h, formula, row, col) ==
    \E k \in 1..Len(strtok(formula)) :
        /\ IsReference(strtok(formula)[k])
        /\ <<TokenRow(strtok(formula)[k]), TokenCol(strtok(formula)[k])>> = <<row, col>>
        /\ \A j \in 1..(k - 1) :
              /\ NamesOther(h, strtok(formula)[j], row, col)
              /\ Operand(h, strtok(formula)[j]).type \in {"NUMBER", "TEXT"}

\* The cell p of h is an ERROR with the message, and the display was told
\* the message, and nothing else, about it.
ErrorShown(h, d, p, message) ==
    /\ h[p].value.type = "ERROR"
    /\ h[p].value.content.text = message
    /\ Displayed(d, h[p].value.row, h[p].value.col, message)
    /\ \A i \in 1..Len(d) :
          <<d[i].row, d[i].col>> = <<h[p].value.row, h[p].value.col>> => d[i].text = message

\* C21 (as claimed): a dependent whose re-evaluation by update_dependencies
\* fails is afterwards an ERROR with the message of that failure, which is
\* what the display was told: the invalid-reference message for a reference
\* to no cell, the circular-dependency message for a reference to itself.
C21_PropagationErrorKept ==
    [][SetStep =>
        \A p \in Nodes(heap') :
            (TimesReevaluated(evals', p) > 0 /\ OperandsSettled(heap', evals', p))
            => LET D == heap'[p].value
               IN  /\ FailsMissing(heap', D.formula, D.row, D.col)
                        => ErrorShown(heap', display', p, ERR_INVALID)
                   /\ FailsCircular(heap', D.formula, D.row, D.col)
                        => ErrorShown(heap', display', p, ERR_CIRCULAR)
      ]_vars

\* C22: once update_dependencies has begun, it re-evaluates every dependent
\* of the set cell, each once and in the order of the list, whether or not
\* the evaluation of an earlier one failed.
C22_PropagationGoesOn ==
    (SetReturned /\ Reevaluated(evals) # <<>>)
    => LET deps == heap[At(heap, last.row, last.col)].value.dependents
           done == Reevaluated(evals)
       IN  /\ Len(done) = Len(deps)
           /\ \A i \in 1..Len(deps) : done[i].cell = deps[i]

\* C22's case: the set cell has two dependents, the first was re-evaluated
\* into an ERROR and the second, after it, into a NUMBER.
C22_Witness ==
    /\ SetReturned
    /\ Len(Reevaluated(evals)) = 2
    /\ heap[Reevaluated(evals)[1].cell].value.type = "ERROR"
    /\ heap[Reevaluated(evals)[2].cell].value.type = "NUMBER"
    /\ heap[At(heap, last.row, last.col)].value.dependents
          = <<Reevaluated(evals)[1].cell, Reevaluated(evals)[2].cell>>

\* C23 (as claimed): once a call has returned, every cell in a dependents
\* list is one whose last supplied input is a formula that names the owner
\* of the list; and a set_cell_value changes neither the type nor the value
\* of another cell whose last input is no formula, and tells the display
\* nothing about it.
C23_CurrentReadersOnly ==
    [][SetStep =>
        /\ \A p \in Nodes(heap') :
              \A i \in 1..Len(heap'[p].value.dependents) :
                  p \in Reads(heap', heap'[p].value.dependents[i])
        /\ \A p \in Nodes(heap) :
              (/\ ~IsFormulaText(heap[p].value.original_input)
               /\ <<heap[p].value.row, heap[p].value.col>> # <<last'.row, last'.col>>)
              => /\ heap'[p].value.type = heap[p].value.type
                 /\ heap'[p].value.content = heap[p].value.content
                 /\ TimesDisplayed(display', heap[p].value.row, heap[p].value.col) = 0
      ]_vars

\* The cell p of h was cleared and not set since: clear_cell released its
\* original input, and set_cell_value gives a cell a new one.
Cleared(h, p) == "original_input" \in h[p].value.released

\* C24 (as claimed): a set_cell_value on another cell does not re-evaluate a
\* cleared cell, leaves its value as clear_cell left it, and tells the
\* display no text for it but the empty one.
C24_ClearedCellDetached ==
    [][SetStep =>
        \A p \in Nodes(heap) :
            (/\ Cleared(heap, p)
             /\ <<heap[p].value.row, heap[p].value.col>> # <<last'.row, last'.col>>)
            => /\ TimesReevaluated(evals', p) = 0
               /\ heap'[p].value.type = heap[p].value.type
               /\ heap'[p].value.content = heap[p].value.content
               /\ \A i \in 1..Len(display') :
                     <<display'[i].row, display'[i].col>>
                         = <<heap[p].value.row, heap[p].value.col>>
                     => display'[i].text = <<>>
      ]_vars

\* C27 (as claimed): clear_cell on a coordinate with no cell returns, and
\* leaves the table and every cell as they were.
C27_ClearAbsent ==
    [][(last'.op = "clear_cell" /\ ~Exists(heap, last'.row, last'.col))
       => /\ ~crashed'
          /\ heap' = heap
          /\ spreadsheet' = spreadsheet
      ]_vars

\* C25: every set_cell_value comes to an end in every store the program
\* reaches, whatever the coordinate and the text (it returns, or the process
\* faults); and a call that returned made one evaluation of the set cell's
\* formula, when the text is one, and one at most of each dependent of the
\* set cell, also in a store whose dependents lists form a cycle.
C25_Termination ==
    /\ ~crashed =>
          \A rc \in Coords, text \in Texts : set_cell_value(World, rc[1], rc[2], text) # {}
    /\ SetReturned =>
          /\ Len(evals) <= (IF IsFormulaText(last.text) THEN 1 ELSE 0)
                              + Len(heap[At(heap, last.row, last.col)].value.dependents)
          /\ \A p \in Nodes(heap) :
                Cardinality({i \in 1..Len(evals) : evals[i].cell = p}) <= 1

\* C25's case: A1 is a dependent of A2 and A2 one of A1, and a set_cell_value
\* on A1 returned after it had re-evaluated A2.
C25_Witness ==
    /\ SetReturned
    /\ <<last.row, last.col>> = <<0, 0>>
    /\ Exists(heap, 0, 0) /\ Exists(heap, 1, 0)
    /\ \E i \in 1..Len(heap[At(heap, 0, 0)].value.dependents) :
          heap[At(heap, 0, 0)].value.dependents[i] = At(heap, 1, 0)
    /\ \E i \in 1..Len(heap[At(heap, 1, 0)].value.dependents) :
          heap[At(heap, 1, 0)].value.dependents[i] = At(heap, 0, 0)
    /\ TimesReevaluated(evals, At(heap, 1, 0)) = 1

\* The formula kept in cell p of h names p itself.
NamesItself(h, p) ==
    \E i \in 1..Len(strtok(h[p].value.formula)) :
        LET token == strtok(h[p].value.formula)[i]
        IN  /\ IsReference(token)
            /\ <<TokenRow(token), TokenCol(token)>> = <<h[p].value.row, h[p].value.col>>

\* Every evaluate_formula of the last call ran with its own cell as the only
\* VISITING one and was called by set_cell_value or update_dependencies: no
\* operand was found of FORMULA type, and the sub-formula branch not taken.
NoSubFormula ==
    \A i \in 1..Len(evals) :
        /\ Cardinality(evals[i].visiting) <= 1
        /\ evals[i].caller # "evaluate_formula"

\* The circular-dependency check fired for cell p in the last call: the
\* display was told its message for p, and p ended an ERROR.  (A cell that
\* only copied the message from an ERROR operand ended a TEXT.)
CircularFired(h, d, p) ==
    /\ h[p].value.type = "ERROR"
    /\ Displayed(d, h[p].value.row, h[p].value.col, ERR_CIRCULAR)

\* C26 (as claimed): at most one cell is VISITING at any time, the
\* sub-formula branch is never taken, and the circular-dependency check fires
\* only for the cell being set, when its formula names it.
C26_CircularOnlyForSetCell ==
    SetReturned =>
        /\ NoSubFormula
        /\ \A p \in Nodes(heap) :
              CircularFired(heap, display, p)
              => /\ <<heap[p].value.row, heap[p].value.col>> = <<last.row, last.col>>
                 /\ IsFormulaText(last.text)
                 /\ NamesItself(heap, p)

\* C26 (amended): the same, with the circular-dependency check firing only
\* for a cell being evaluated whose formula names it: the cell being set, or
\* a dependent that update_dependencies re-evaluates.
C26_CircularOnlyForEvaluatedCell ==
    SetReturned =>
        /\ NoSubFormula
        /\ \A p \in Nodes(heap) :
              CircularFired(heap, display, p)
              => /\ \E j \in 1..Len(evals) : evals[j].cell = p
                 /\ NamesItself(heap, p)

\* C26's case: update_dependencies re-evaluated a dependent whose formula
\* names the dependent itself, and the check fired for it.
C26_Witness ==
    /\ SetReturned
    /\ \E p \in Nodes(heap) :
          /\ CircularFired(heap, display, p)
          /\ <<heap[p].value.row, heap[p].value.col>> # <<last.row, last.col>>
          /\ TimesReevaluated(evals, p) = 1
          /\ NamesItself(heap, p)

====
